---- MODULE Spec2Model ----
(***************************************************************************)
(* Model of pyrad.flow.flow_control: the dataset processing flow (main,    *)
(* _process_dataset, _create_dscfg_dict, _get_datasets_list, _add_dataset) *)
(*                                                                         *)
(* Encodings.  A processing-level key 'l<digits>' is the sequence of its   *)
(* digits ('l10' is <<1, 0>>); Python's str ordering of two such keys is   *)
(* the lexicographic ordering of the digit sequences.  None is 0 for       *)
(* voltime/timeinfo/global_data, and a radar object is a record with an    *)
(* isNone flag, the time of the volume it was read for and its fields      *)
(* dictionary.  A field value records the visit position of the dataset    *)
(* that produced it (0: read from the files) and the volume index it was   *)
(* produced at.  A key that a dictionary does not hold is Absent.  A data   *)
(* type descriptor 'group:type' or 'group:type,dataset,product' is the     *)
(* sequence of its parts; None for a descriptor is the empty sequence.  A  *)
(* 'datatype' entry of a dataset section is a record of its kind (absent,  *)
(* a str, a list) and the descriptors it holds.                            *)
(***************************************************************************)
EXTENDS Integers, Sequences, FiniteSets, TLC

\* ---------------------------------------------------------------- bounds
MaxStages == 2      \* longest cfg['dataSetList']
MaxSteps == 2       \* longest master file list
MaxTypes == 2       \* longest list under a 'datatype' key
MaxProducts == 2    \* longest dscfg['products'] handed to the product functions
MaxMerges == 2      \* most _add_dataset calls on one radar object

Absent == -1
\* the value of a call that raised instead of returning
NoReturn == -2

\* ------------------------------------------------------- input alphabets
Names == {"A", "B"}
\* declared level tokens: <<>> is a descriptor without 'l<n>:' prefix
LevelTokens == {<<>>, <<2>>, <<1, 0>>}
Fields == {"f", "g"}
\* the fields of the volume that get_data reads for master file i
SourceFields(i) == IF i % 2 = 1 THEN {"f", "g"} ELSE {}
\* the field sets of the datasets a processing function may return
ResultFieldSets == {{"f"}}
\* dscfg['products'] of each dataset (<<>>: the section has no products)
ProductsOf == [n \in Names |-> IF n = "A" THEN <<"p", "q">> ELSE <<>>]
\* the MAKE_GLOBAL entries a dataset section may carry (Absent: no entry)
MakeGlobalOf == [n \in Names |-> IF n = "A" THEN {Absent, 1} ELSE {1}]

\* data type descriptors: the groups of the external sources, the groups
\* that cannot serve as the master, the group of the processed data
DataTypes ==
    {<<"RAINBOW", "dBZ">>, <<"RAD4ALP", "ZDR">>, <<"COSMO", "TEMP">>,
     <<"RAD4ALPCOSMO", "TEMP">>, <<"DEM", "VIS">>, <<"RAD4ALPDEM", "VIS">>,
     <<"PROC", "dBZ", "A", "p">>}
NoDescr == <<>>
NoDatatype == [kind |-> "absent", val |-> <<>>]
\* cfg[dataset]['datatype'] of each dataset in the runs of main
DatatypeOf ==
    [n \in Names |->
        IF n = "A" THEN [kind |-> "str", val |-> << <<"RAINBOW", "dBZ">> >>]
        ELSE [kind |-> "list", val |-> << <<"PROC", "dBZ", "A", "p">> >>]]

\* the dataset types a processing function is registered for, and
\* cfg[dataset]['type'] of each dataset
ProcTypes == {"RAW"}
TypeOf == [n \in Names |-> IF n = "A" THEN {"RAW"} ELSE {"RAW", "FOO"}]

INIT_STATUS == 0
PROCESS_STATUS == 1
FINAL_STATUS == 2

NoFields == [f \in {} |-> 0]
NoProdRun == [prod_func |-> "", keys |-> {}, fields |-> {}, hist_type |-> "",
              products |-> <<>>]
NoneRadar == [isNone |-> TRUE, time |-> 0, fields |-> NoFields]

VARIABLES
    pc,             \* position in main
    err,            \* exception that ended main ("" while none)
    cfg,            \* per-dataset sections of the configuration dictionary
    dataSetList,    \* cfg['dataSetList']
    masterfilelist, \* result of get_file_list: the volume times, in order
    dataset_levels, \* result of _get_datasets_list
    dscfg,          \* keys of the dscfg dictionary (values alias cfg[name])
    vi,             \* index of the current master file
    k,              \* index in the current pass over the datasets
    radar,          \* the radar object of the current volume
    voltime,        \* main's voltime
    calls,          \* history: the proc_func invocations so far
    fetches,        \* history: the get_data invocations so far
    stepResults,    \* history: datasets returned during the current volume
    lastInv,        \* history: the most recent _process_dataset call
    datatypesdescr, \* result of _get_datatype_list
    masterdatatypedescr, \* the descriptor _get_masterfile_list resolved
    listed,         \* history: the descriptors get_file_list was called with
    prodrun,        \* the product loop under study: prod_func, dataset, products
    prodlog,        \* history: what each prod_func call of that loop did
    merges          \* history: the _add_dataset calls of the merge study

vars == <<pc, err, cfg, dataSetList, masterfilelist, dataset_levels, dscfg,
          vi, k, radar, voltime, calls, fetches, stepResults, lastInv,
          datatypesdescr, masterdatatypedescr, listed, prodrun, prodlog,
          merges>>

\* the variables of the product functions
prodvars == <<prodrun, prodlog>>

\* the variable of the field merges
mergevars == <<merges>>

\* the variables of the master data type resolution
clockvars == <<datatypesdescr, masterdatatypedescr, listed>>

\* ------------------------------------------------------ pure operators

\* Python: a < b for two str keys 'l'+a, 'l'+b
RECURSIVE StrLess(_, _)
StrLess(a, b) ==
    IF a = <<>> THEN b # <<>>
    ELSE IF b = <<>> THEN FALSE
    ELSE IF Head(a) # Head(b) THEN Head(a) < Head(b)
    ELSE StrLess(Tail(a), Tail(b))

\* Python: sorted(d) for a dict d with key set S
RECURSIVE sorted(_)
sorted(S) ==
    IF S = {} THEN <<>>
    ELSE LET m == CHOOSE x \in S : \A y \in S \ {x} : StrLess(x, y)
         IN <<m>> \o sorted(S \ {m})

\* io_aux.get_dataset_fields: '<level>:<name>' -> (level, name), level 'l0'
\* when the descriptor carries no level
get_dataset_fields(d) ==
    [proclevel |-> IF d.lvl = <<>> THEN <<0>> ELSE d.lvl, dataset |-> d.name]

\* _get_datasets_list, the loop over cfg['dataSetList'] from acc
RECURSIVE DatasetsLoop(_, _)
DatasetsLoop(acc, descrs) ==
    IF descrs = <<>> THEN acc
    ELSE LET r == get_dataset_fields(Head(descrs))
             nxt == IF r.proclevel \in DOMAIN acc
                    THEN [acc EXCEPT ![r.proclevel] = Append(@, r.dataset)]
                    ELSE [l \in DOMAIN acc \cup {r.proclevel} |->
                            IF l = r.proclevel THEN <<r.dataset>> ELSE acc[l]]
         IN DatasetsLoop(nxt, Tail(descrs))

\* mutant: the mapping does not start with the key 'l0'
InitialLevels_empty == [l \in {} |-> <<>>]

\* line 396
InitialLevels == [l \in {<<0>>} |-> <<>>]

_get_datasets_list(descrs) == DatasetsLoop(InitialLevels, descrs)

\* the datasets in the order the nested loops
\*   for level in sorted(dataset_levels): for dataset in dataset_levels[level]
\* visit them
RECURSIVE Concat(_, _)
Concat(dl, keys) ==
    IF keys = <<>> THEN <<>> ELSE dl[Head(keys)] \o Concat(dl, Tail(keys))

VisitOrder(dl) == Concat(dl, sorted(DOMAIN dl))

\* io_aux.get_datatype_fields: 'group:type[,dataset,product]' -> its parts
get_datatype_fields(d) ==
    [datagroup |-> d[1], datatype |-> d[2],
     dataset |-> IF Len(d) >= 3 THEN d[3] ELSE "",
     product |-> IF Len(d) >= 4 THEN d[4] ELSE ""]

\* mutant: the descriptors of the processed data are not left out
SectionTypes_all(sec) ==
    IF sec.datatype.kind = "absent" THEN {}
    ELSE {sec.datatype.val[i] : i \in DOMAIN sec.datatype.val}

\* lines 363-374: the descriptors one dataset section adds to the set (a str
\* entry holds one descriptor, a list entry is iterated)
SectionTypes(sec) ==
    IF sec.datatype.kind = "absent" THEN {}
    ELSE {sec.datatype.val[i] :
            i \in {j \in DOMAIN sec.datatype.val :
                     get_datatype_fields(sec.datatype.val[j]).datagroup
                        # "PROC"}}

\* _get_datatype_list, the loop over cfg['dataSetList'] from the set acc
RECURSIVE DatatypeLoop(_, _, _)
DatatypeLoop(acc, c, descrs) ==
    IF descrs = <<>> THEN acc
    ELSE DatatypeLoop(
            acc \cup SectionTypes(c[get_dataset_fields(Head(descrs)).dataset]),
            c, Tail(descrs))

\* Python: the lists list(S) can be for a set S (its order is not defined)
ListsOf(S) ==
    {q \in [1..Cardinality(S) -> S] :
        \A i, j \in 1..Cardinality(S) : i # j => q[i] # q[j]}

\* _get_datatype_list: the lists it can return
_get_datatype_list(c, descrs) == ListsOf(DatatypeLoop({}, c, descrs))

AuxGroups == {"COSMO", "RAD4ALPCOSMO", "DEM", "RAD4ALPDEM"}

\* mutant: the last descriptor of a group that can be the master is taken
RECURSIVE PrimaryLoop_last(_)
PrimaryLoop_last(l) ==
    IF l = <<>> THEN NoDescr
    ELSE IF get_datatype_fields(l[Len(l)]).datagroup \notin AuxGroups
         THEN l[Len(l)]
         ELSE PrimaryLoop_last(SubSeq(l, 1, Len(l) - 1))

\* lines 431-438: the first descriptor whose group can be the master
RECURSIVE PrimaryLoop(_)
PrimaryLoop(l) ==
    IF l = <<>> THEN NoDescr
    ELSE IF get_datatype_fields(Head(l)).datagroup \notin AuxGroups
         THEN Head(l)
         ELSE PrimaryLoop(Tail(l))

\* mutant: every group falls back to the RAINBOW reflectivity
RECURSIVE FallbackLoop_rainbow(_)
FallbackLoop_rainbow(l) ==
    IF l = <<>> THEN NoDescr
    ELSE IF get_datatype_fields(Head(l)).datagroup \in AuxGroups
         THEN <<"RAINBOW", "dBZ">>
         ELSE FallbackLoop_rainbow(Tail(l))

\* lines 441-456: the reflectivity of the source of the first descriptor
RECURSIVE FallbackLoop(_)
FallbackLoop(l) ==
    IF l = <<>> THEN NoDescr
    ELSE LET datagroup == get_datatype_fields(Head(l)).datagroup
         IN IF datagroup = "COSMO" THEN <<"RAINBOW", "dBZ">>
            ELSE IF datagroup = "RAD4ALPCOSMO" THEN <<"RAD4ALP", "dBZ">>
            ELSE IF datagroup = "DEM" THEN <<"RAINBOW", "dBZ">>
            ELSE IF datagroup = "RAD4ALPDEM" THEN <<"RAD4ALP", "dBZ">>
            ELSE FallbackLoop(Tail(l))

\* _get_masterfile_list: the descriptor it calls get_file_list with
MasterDescr(l) ==
    IF PrimaryLoop(l) # NoDescr THEN PrimaryLoop(l) ELSE FallbackLoop(l)

\* mutant: the entries the processing functions write are not reset
_create_dscfg_dict_keep(sec, dataset) ==
    [sec EXCEPT !.dsname = dataset,
                !.timeinfo = 0,
                !.MAKE_GLOBAL = IF @ = Absent THEN 0 ELSE @]

\* _create_dscfg_dict: the section cfg[dataset], updated in place
_create_dscfg_dict(sec, dataset) ==
    [sec EXCEPT !.dsname = dataset,
                !.timeinfo = 0,
                !.initialized = 0,
                !.global_data = 0,
                !.MAKE_GLOBAL = IF @ = Absent THEN 0 ELSE @]

\* mutant: the radar object is left with the fields of the new dataset only
AddFields_only(flds, newflds) == newflds

\* radar.add_field(field, value, replace_existing=True) for every field
AddFields(flds, newflds) ==
    [f \in DOMAIN flds \cup DOMAIN newflds |->
        IF f \in DOMAIN newflds THEN newflds[f] ELSE flds[f]]

\* mutant: the make_global flag is not consulted
_add_dataset_always(new_dataset, rad, make_global) ==
    IF rad.isNone THEN [ret |-> Absent, radar |-> rad]
    ELSE [ret |-> 0,
          radar |-> [rad EXCEPT !.fields = AddFields(@, new_dataset)]]

\* mutant: the fields are added to an emptied radar object
_add_dataset_reset(new_dataset, rad, make_global) ==
    IF rad.isNone THEN [ret |-> Absent, radar |-> rad]
    ELSE IF make_global = 0 THEN [ret |-> Absent, radar |-> rad]
    ELSE [ret |-> 0,
          radar |-> [rad EXCEPT !.fields = AddFields(NoFields, new_dataset)]]

\* mutant: the fields are added whether or not there is a radar object
_add_dataset_noradar(new_dataset, rad, make_global) ==
    IF make_global = 0 THEN [ret |-> Absent, radar |-> rad]
    ELSE [ret |-> 0,
          radar |-> [rad EXCEPT !.fields = AddFields(@, new_dataset)]]

\* _add_dataset: the return value (Absent for None) and the radar afterwards
_add_dataset(new_dataset, rad, make_global) ==
    IF rad.isNone THEN [ret |-> Absent, radar |-> rad]
    ELSE IF make_global = 0 THEN [ret |-> Absent, radar |-> rad]
    ELSE [ret |-> 0,
          radar |-> [rad EXCEPT !.fields = AddFields(@, new_dataset)]]

\* ---------------------------------------------------------------- Init

Descriptors == [lvl : LevelTokens, name : Names]

SeqsUpTo(S, n) == UNION {[1..m -> S] : m \in 0..n}

\* cfg[dataset]['products'] as read from the configuration files: the
\* configuration of each product carries none of the entries that
\* _create_prdcfg_dict adds
NewPrdCfgs(prods) ==
    [p \in {prods[i] : i \in DOMAIN prods} |->
        [runwide |-> FALSE, dsname |-> "", prdname |-> "",
         timeinfo |-> Absent]]

\* the section of dataset n as read from the configuration files
Sections(n) ==
    [MAKE_GLOBAL : MakeGlobalOf[n], products : {ProductsOf[n]},
     dsname : {""}, timeinfo : {Absent}, initialized : {Absent},
     global_data : {Absent}, datatype : {DatatypeOf[n]}, type : TypeOf[n],
     prdcfg : {NewPrdCfgs(ProductsOf[n])}]

NoInv == [status |-> Absent, dataset |-> "", pos |-> 0, radar |-> NoneRadar,
          timeinfo |-> Absent, new_dataset |-> NoFields, isNone |-> TRUE,
          make_global |-> Absent, added |-> Absent, renders |-> <<>>,
          raised |-> "", ret |-> Absent]

\* the section of a dataset that cfg['dataSetList'] does not name (no
\* function of the flow reads it)
UnusedSection(n) ==
    CHOOSE s \in Sections(n) : s.MAKE_GLOBAL = 1 /\ s.type = "RAW"

Init ==
    /\ pc = "start"
    /\ err = ""
    /\ dataSetList \in SeqsUpTo(Descriptors, MaxStages)
    /\ cfg \in [Names -> UNION {Sections(n) : n \in Names}]
    /\ \A n \in Names :
          IF \E i \in DOMAIN dataSetList : dataSetList[i].name = n
          THEN cfg[n] \in Sections(n)
          ELSE cfg[n] = UnusedSection(n)
    /\ \E n \in 0..MaxSteps : masterfilelist = [i \in 1..n |-> i]
    /\ dataset_levels = [l \in {} |-> <<>>]
    /\ dscfg = {}
    /\ vi = 0
    /\ k = 0
    /\ radar = NoneRadar
    /\ voltime = 0
    /\ calls = <<>>
    /\ fetches = <<>>
    /\ stepResults = <<>>
    /\ lastInv = NoInv
    /\ datatypesdescr = <<>>
    /\ masterdatatypedescr = NoDescr
    /\ listed = <<>>
    /\ prodrun = NoProdRun
    /\ prodlog = <<>>
    /\ merges = <<>>

\* --------------------------------------------------------- _process_dataset

\* what the external calls made by one _process_dataset call do: the
\* transform proc_func returns None, returns a dataset with the given fields,
\* or raises; rfail is the index of the product whose prod_func raises (0 when
\* none does)
Outcomes(prods) ==
    {[kind |-> "none", fields |-> {}, rfail |-> 0],
     [kind |-> "raise", fields |-> {}, rfail |-> 0]}
    \cup [kind : {"data"}, fields : ResultFieldSets, rfail : 0..Len(prods)]

\* mutant: the time is entered in the product configuration even when None
_create_prdcfg_dict_always(prdcfg, dataset, product, vt) ==
    [prdcfg EXCEPT !.runwide = TRUE, !.dsname = dataset, !.prdname = product,
                   !.timeinfo = vt]

\* _create_prdcfg_dict: cfg[dataset]['products'][product], updated in place
\* (runwide: the entries copied from cfg, lines 320-333)
_create_prdcfg_dict(prdcfg, dataset, product, vt) ==
    [prdcfg EXCEPT !.runwide = TRUE, !.dsname = dataset, !.prdname = product,
                   !.timeinfo = IF vt # 0 THEN vt ELSE @]

\* the number of products of dscfg['products'] for which prod_func is called
NRendered(prods, o) ==
    IF o.kind # "data" THEN 0
    ELSE IF o.rfail = 0 THEN Len(prods) ELSE o.rfail

\* the product configurations of the section after the product loop
PrdCfgsAfter(sec, ds, o, vt) ==
    [p \in DOMAIN sec.prdcfg |->
        IF \E i \in 1..NRendered(sec.products, o) : sec.products[i] = p
        THEN _create_prdcfg_dict(sec.prdcfg[p], ds, p, vt)
        ELSE sec.prdcfg[p]]

\* the products of dscfg['products'] for which prod_func was called, with the
\* dataset and the product configuration it was called with
Rendered(sec, ds, o, nd, vt) ==
    [i \in 1..NRendered(sec.products, o) |->
        LET prdcfg == _create_prdcfg_dict(sec.prdcfg[sec.products[i]], ds,
                                          sec.products[i], vt)
        IN [product |-> sec.products[i], dataset |-> nd, prdcfg |-> prdcfg,
            timeinfo |-> prdcfg.timeinfo]]

\* process_aux.get_process_type: whether a processing function is registered
\* for the dataset type (the call raises when none is)
get_process_type(type) == type \in ProcTypes

\* what a processing function of the runs does to the dataset configuration
\* it is handed: a call that returns marks the dataset initialized and counts
\* itself in global_data (None counts as 0)
proc_func(sec) == [sec EXCEPT !.initialized = 1, !.global_data = @ + 1]

\* _process_dataset(cfg, dscfg[ds], proc_status=status, radar=rad, voltime=vt)
\* called on configuration c, and main's continuation after it
_process_dataset(c, ds, status, rad, vt, o) ==
    LET sec0 == [c[ds] EXCEPT !.timeinfo = vt]
        sec1 == IF o.kind = "raise" THEN sec0 ELSE proc_func(sec0)
        sec == [sec1 EXCEPT !.prdcfg = PrdCfgsAfter(sec1, ds, o, vt)]
        nd == [f \in o.fields |->
                 [pos |-> k, at |-> IF status = PROCESS_STATUS THEN vi ELSE 0]]
        res == _add_dataset(nd, rad, sec.MAKE_GLOBAL)
        rend == Rendered(sec1, ds, o, nd, vt)
        exc == IF o.kind = "raise" THEN "transform"
               ELSE IF o.kind = "data" /\ o.rfail # 0 THEN "render"
               ELSE ""
    IN IF ~get_process_type(sec0.type)
       THEN /\ o.kind = "none"
            /\ cfg' = [c EXCEPT ![ds] = sec0]
            /\ pc' = "error"
            /\ err' = "unknowntype"
            /\ UNCHANGED <<k, radar, calls, stepResults, lastInv>>
       ELSE
       /\ cfg' = [c EXCEPT ![ds] = sec]
       /\ calls' = Append(calls, [status |-> status, dataset |-> ds,
                                  step |-> IF status = PROCESS_STATUS
                                           THEN vi ELSE 0,
                                  pos |-> k, timeinfo |-> vt,
                                  hasRadar |-> ~rad.isNone,
                                  radartime |-> rad.time,
                                  nfetch |-> Len(fetches),
                                  initialized |-> sec0.initialized,
                                  global_data |-> sec0.global_data,
                                  raised |-> exc])
       /\ radar' = IF o.kind = "data" /\ ~rad.isNone THEN res.radar ELSE radar
       /\ stepResults' =
            IF o.kind = "data" /\ status = PROCESS_STATUS
            THEN Append(stepResults,
                        [pos |-> k, dataset |-> ds,
                         make_global |-> sec.MAKE_GLOBAL, fields |-> nd])
            ELSE stepResults
       /\ lastInv' = [status |-> status, dataset |-> ds, pos |-> k,
                      radar |-> rad,
                      timeinfo |-> vt, new_dataset |-> nd,
                      isNone |-> (o.kind # "data"),
                      make_global |-> sec.MAKE_GLOBAL,
                      added |-> IF o.kind = "data" THEN res.ret ELSE Absent,
                      renders |-> rend, raised |-> exc,
                      ret |-> IF exc # "" THEN NoReturn
                              ELSE IF o.kind = "data" THEN 0 ELSE Absent]
       /\ err' = exc
       /\ IF exc = "" THEN pc' = pc /\ k' = k + 1
                      ELSE pc' = "error" /\ k' = k

\* ------------------------------------------------------------------ main

Order == VisitOrder(dataset_levels)

\* mutant: the empty master file list is not rejected
Setup_nocheck ==
    /\ pc = "start"
    /\ \E l \in _get_datatype_list(cfg, dataSetList) :
          /\ datatypesdescr' = l
          /\ masterdatatypedescr' = MasterDescr(l)
          /\ listed' = Append(listed, MasterDescr(l))
    /\ dataset_levels' = _get_datasets_list(dataSetList)
    /\ pc' = "init" /\ err' = err /\ k' = 1
    /\ UNCHANGED <<cfg, dataSetList, masterfilelist, dscfg, vi, radar,
                   voltime, calls, fetches, stepResults, lastInv, prodvars,
                   mergevars>>

\* lines 52-66: the plan, the master file list, the empty-list check
\* (get_file_list is called with the resolved descriptor, None included;
\* called with None it returns the list or raises; the message of the
\* no-volume exception cannot be built with None)
Setup ==
    /\ pc = "start"
    /\ \E l \in _get_datatype_list(cfg, dataSetList) :
          /\ datatypesdescr' = l
          /\ masterdatatypedescr' = MasterDescr(l)
          /\ listed' = Append(listed, MasterDescr(l))
    /\ dataset_levels' = _get_datasets_list(dataSetList)
    /\ \/ IF Len(masterfilelist) = 0
          THEN /\ pc' = "error"
               /\ err' = IF masterdatatypedescr' = NoDescr
                          THEN "TypeError" ELSE "novolume"
               /\ k' = k
          ELSE pc' = "init" /\ err' = err /\ k' = 1
       \/ /\ masterdatatypedescr' = NoDescr
          /\ pc' = "error" /\ err' = "listing" /\ k' = k
    /\ UNCHANGED <<cfg, dataSetList, masterfilelist, dscfg, vi, radar,
                   voltime, calls, fetches, stepResults, lastInv, prodvars,
                   mergevars>>

\* mutant: a dataset whose type has no processing function is passed over
InitDataset_skip ==
    /\ pc = "init"
    /\ k <= Len(Order)
    /\ LET ds == Order[k]
           c == [cfg EXCEPT ![ds] = _create_dscfg_dict(@, ds)]
       IN /\ dscfg' = dscfg \cup {ds}
          /\ IF get_process_type(c[ds].type)
             THEN \E o \in Outcomes(c[ds].products) :
                     _process_dataset(c, ds, INIT_STATUS, NoneRadar, 0, o)
             ELSE /\ cfg' = c
                  /\ k' = k + 1
                  /\ UNCHANGED <<pc, err, radar, calls, stepResults, lastInv>>
    /\ UNCHANGED <<dataSetList, masterfilelist, dataset_levels, vi, voltime,
                   fetches>>
    /\ UNCHANGED <<clockvars, prodvars, mergevars>>

\* mutant: the dataset configuration is not entered in dscfg
InitDataset_nostore ==
    /\ pc = "init"
    /\ k <= Len(Order)
    /\ LET ds == Order[k]
           c == [cfg EXCEPT ![ds] = _create_dscfg_dict(@, ds)]
       IN /\ dscfg' = dscfg
          /\ \E o \in Outcomes(c[ds].products) :
                _process_dataset(c, ds, INIT_STATUS, NoneRadar, 0, o)
    /\ UNCHANGED <<dataSetList, masterfilelist, dataset_levels, vi, voltime,
                   fetches>>
    /\ UNCHANGED <<clockvars, prodvars, mergevars>>

\* lines 72-78: one iteration of the initialisation loops
InitDataset ==
    /\ pc = "init"
    /\ k <= Len(Order)
    /\ LET ds == Order[k]
           c == [cfg EXCEPT ![ds] = _create_dscfg_dict(@, ds)]
       IN /\ dscfg' = dscfg \cup {ds}
          /\ \E o \in Outcomes(c[ds].products) :
                _process_dataset(c, ds, INIT_STATUS, NoneRadar, 0, o)
    /\ UNCHANGED <<dataSetList, masterfilelist, dataset_levels, vi, voltime,
                   fetches>>
    /\ UNCHANGED <<clockvars, prodvars, mergevars>>

\* line 72: the initialisation loops are exhausted
InitEnd ==
    /\ pc = "init"
    /\ k > Len(Order)
    /\ pc' = "fetch"
    /\ vi' = 1
    /\ UNCHANGED <<err, cfg, dataSetList, masterfilelist, dataset_levels,
                   dscfg, k, radar, voltime, calls, fetches, stepResults,
                   lastInv>>
    /\ UNCHANGED <<clockvars, prodvars, mergevars>>

\* mutant: the raw data are read for the first master file only
Fetch_cached ==
    /\ pc = "fetch"
    /\ vi <= Len(masterfilelist)
    /\ voltime' = masterfilelist[vi]
    /\ IF vi = 1
       THEN /\ radar' = [isNone |-> FALSE, time |-> masterfilelist[vi],
                         fields |-> [f \in SourceFields(vi) |->
                                       [pos |-> 0, at |-> vi]]]
            /\ fetches' = Append(fetches, [step |-> vi, ok |-> TRUE])
       ELSE UNCHANGED <<radar, fetches>>
    /\ pc' = "process"
    /\ err' = err
    /\ k' = 1
    /\ stepResults' = <<>>
    /\ UNCHANGED <<cfg, dataSetList, masterfilelist, dataset_levels, dscfg,
                   vi, calls, lastInv>>
    /\ UNCHANGED <<clockvars, prodvars, mergevars>>

\* mutant: the raw data of a volume are added to the previous radar object
Fetch_keep ==
    /\ pc = "fetch"
    /\ vi <= Len(masterfilelist)
    /\ voltime' = masterfilelist[vi]
    /\ radar' = [isNone |-> FALSE, time |-> masterfilelist[vi],
                 fields |-> AddFields(radar.fields,
                                      [f \in SourceFields(vi) |->
                                         [pos |-> 0, at |-> vi]])]
    /\ fetches' = Append(fetches, [step |-> vi, ok |-> TRUE])
    /\ pc' = "process"
    /\ err' = err
    /\ k' = 1
    /\ stepResults' = <<>>
    /\ UNCHANGED <<cfg, dataSetList, masterfilelist, dataset_levels, dscfg,
                   vi, calls, lastInv>>
    /\ UNCHANGED <<clockvars, prodvars, mergevars>>

\* mutant: the time of the first volume is kept for the later volumes
Fetch_stale ==
    /\ pc = "fetch"
    /\ vi <= Len(masterfilelist)
    /\ voltime' = IF vi = 1 THEN masterfilelist[vi] ELSE voltime
    /\ \/ /\ radar' = [isNone |-> FALSE, time |-> masterfilelist[vi],
                      fields |-> [f \in SourceFields(vi) |->
                                    [pos |-> 0, at |-> vi]]]
          /\ fetches' = Append(fetches, [step |-> vi, ok |-> TRUE])
          /\ pc' = "process"
          /\ err' = err
          /\ k' = 1
          /\ stepResults' = <<>>
       \/ /\ fetches' = Append(fetches, [step |-> vi, ok |-> FALSE])
          /\ pc' = "error"
          /\ err' = "fetch"
          /\ UNCHANGED <<radar, k, stepResults>>
    /\ UNCHANGED <<cfg, dataSetList, masterfilelist, dataset_levels, dscfg,
                   vi, calls, lastInv>>
    /\ UNCHANGED <<clockvars, prodvars, mergevars>>

\* lines 81-86: the next master file, its time and its raw data
Fetch ==
    /\ pc = "fetch"
    /\ vi <= Len(masterfilelist)
    /\ voltime' = masterfilelist[vi]
    /\ \/ /\ radar' = [isNone |-> FALSE, time |-> masterfilelist[vi],
                      fields |-> [f \in SourceFields(vi) |->
                                    [pos |-> 0, at |-> vi]]]
          /\ fetches' = Append(fetches, [step |-> vi, ok |-> TRUE])
          /\ pc' = "process"
          /\ err' = err
          /\ k' = 1
          /\ stepResults' = <<>>
       \/ /\ fetches' = Append(fetches, [step |-> vi, ok |-> FALSE])
          /\ pc' = "error"
          /\ err' = "fetch"
          /\ UNCHANGED <<radar, k, stepResults>>
    /\ UNCHANGED <<cfg, dataSetList, masterfilelist, dataset_levels, dscfg,
                   vi, calls, lastInv>>
    /\ UNCHANGED <<clockvars, prodvars, mergevars>>

\* lines 89-95: one iteration of the processing loops of a volume
ProcessDataset ==
    /\ pc = "process"
    /\ k <= Len(Order)
    /\ LET ds == Order[k]
       IN IF ds \in dscfg
          THEN \E o \in Outcomes(cfg[ds].products) :
                  _process_dataset(cfg, ds, PROCESS_STATUS, radar, voltime, o)
          ELSE /\ pc' = "error"
               /\ err' = "KeyError"
               /\ UNCHANGED <<cfg, k, radar, calls, stepResults, lastInv>>
    /\ UNCHANGED <<dataSetList, masterfilelist, dataset_levels, dscfg, vi,
                   voltime, fetches>>
    /\ UNCHANGED <<clockvars, prodvars, mergevars>>

\* line 89: the processing loops of a volume are exhausted
StepEnd ==
    /\ pc = "process"
    /\ k > Len(Order)
    /\ pc' = "fetch"
    /\ vi' = vi + 1
    /\ UNCHANGED <<err, cfg, dataSetList, masterfilelist, dataset_levels,
                   dscfg, k, radar, voltime, calls, fetches, stepResults,
                   lastInv>>
    /\ UNCHANGED <<clockvars, prodvars, mergevars>>

\* mutant: the initialisation pass is run again after the last volume
StreamEnd_restart ==
    /\ pc = "fetch"
    /\ vi > Len(masterfilelist)
    /\ pc' = "init"
    /\ k' = 1
    /\ UNCHANGED <<err, cfg, dataSetList, masterfilelist, dataset_levels,
                   dscfg, vi, radar, voltime, calls, fetches, stepResults,
                   lastInv>>
    /\ UNCHANGED <<clockvars, prodvars, mergevars>>

\* line 81: the master file list is exhausted
StreamEnd ==
    /\ pc = "fetch"
    /\ vi > Len(masterfilelist)
    /\ pc' = "final"
    /\ k' = 1
    /\ UNCHANGED <<err, cfg, dataSetList, masterfilelist, dataset_levels,
                   dscfg, vi, radar, voltime, calls, fetches, stepResults,
                   lastInv>>
    /\ UNCHANGED <<clockvars, prodvars, mergevars>>

\* mutant: the post-processing calls are made without a time
FinalDataset_notime ==
    /\ pc = "final"
    /\ k <= Len(Order)
    /\ LET ds == Order[k]
       IN IF ds \in dscfg
          THEN \E o \in Outcomes(cfg[ds].products) :
                  _process_dataset(cfg, ds, FINAL_STATUS, NoneRadar, 0, o)
          ELSE /\ pc' = "error"
               /\ err' = "KeyError"
               /\ UNCHANGED <<cfg, k, radar, calls, stepResults, lastInv>>
    /\ UNCHANGED <<dataSetList, masterfilelist, dataset_levels, dscfg, vi,
                   voltime, fetches>>
    /\ UNCHANGED <<clockvars, prodvars, mergevars>>

\* lines 99-105: one iteration of the post-processing loops
FinalDataset ==
    /\ pc = "final"
    /\ k <= Len(Order)
    /\ LET ds == Order[k]
       IN IF ds \in dscfg
          THEN \E o \in Outcomes(cfg[ds].products) :
                  _process_dataset(cfg, ds, FINAL_STATUS, NoneRadar, voltime, o)
          ELSE /\ pc' = "error"
               /\ err' = "KeyError"
               /\ UNCHANGED <<cfg, k, radar, calls, stepResults, lastInv>>
    /\ UNCHANGED <<dataSetList, masterfilelist, dataset_levels, dscfg, vi,
                   voltime, fetches>>
    /\ UNCHANGED <<clockvars, prodvars, mergevars>>

\* mutant: main returns before the post-processing loops are exhausted
FinalEnd_early ==
    /\ pc = "final"
    /\ pc' = "done"
    /\ UNCHANGED <<err, cfg, dataSetList, masterfilelist, dataset_levels,
                   dscfg, vi, k, radar, voltime, calls, fetches, stepResults,
                   lastInv>>
    /\ UNCHANGED <<clockvars, prodvars, mergevars>>

\* lines 99-107: the post-processing loops are exhausted, main returns
FinalEnd ==
    /\ pc = "final"
    /\ k > Len(Order)
    /\ pc' = "done"
    /\ UNCHANGED <<err, cfg, dataSetList, masterfilelist, dataset_levels,
                   dscfg, vi, k, radar, voltime, calls, fetches, stepResults,
                   lastInv>>
    /\ UNCHANGED <<clockvars, prodvars, mergevars>>

Next ==
    \/ Setup
    \/ InitDataset
    \/ InitEnd
    \/ Fetch
    \/ ProcessDataset
    \/ StepEnd
    \/ StreamEnd
    \/ FinalDataset
    \/ FinalEnd

Spec == Init /\ [][Next]_vars

\* main is one sequential program: while a statement is left to execute, one
\* is executed
SpecLive == Init /\ [][Next]_vars /\ WF_vars(Next)

TypeOK ==
    /\ pc \in {"start", "init", "fetch", "process", "final", "done", "error",
              "dispatch", "returned"}
    /\ k \in 0..(MaxStages + 1)
    /\ vi \in 0..(MaxSteps + 1)

\* ------------------------------------------------------------ properties

\* the executor phase main is in
Phase ==
    CASE pc = "start" -> "Idle"
      [] pc = "init" -> "Initializing"
      [] pc \in {"fetch", "process"} -> "Streaming"
      [] pc = "final" -> "Finalizing"
      [] pc = "done" -> "Done"
      [] OTHER -> "Aborted"

StatusesCalled == {calls[i].status : i \in DOMAIN calls}

\* C1: the transform invocations of a run are ordered INIT, then PROCESS, then
\* FINALIZE, and each phase only sees the invocations of the phases up to it:
\* none in Idle, only INIT ones in Initializing, no FINALIZE one in Streaming.
C1_PhaseOrder ==
    /\ \A i, j \in DOMAIN calls : i < j => calls[i].status <= calls[j].status
    /\ Phase = "Idle" => calls = <<>>
    /\ Phase = "Initializing" => StatusesCalled \subseteq {INIT_STATUS}
    /\ Phase = "Streaming" =>
          StatusesCalled \subseteq {INIT_STATUS, PROCESS_STATUS}

C1_Witness ==
    /\ pc = "done"
    /\ StatusesCalled = {INIT_STATUS, PROCESS_STATUS, FINAL_STATUS}

\* the level key of descriptor d
LevelOf(d) == get_dataset_fields(d).proclevel

\* the names of the descriptors of level l, in declaration order
DeclaredAt(descrs, l) ==
    LET sel == SelectSeq(descrs, LAMBDA d : LevelOf(d) = l)
    IN [i \in 1..Len(sel) |-> sel[i].name]

\* C4: once planned, dataset_levels is keyed by exactly the levels of the
\* descriptors plus level 0, and maps each level to the names declared at that
\* level, in declaration order, once per declaration.
C4_DatasetsList ==
    pc # "start" =>
        /\ DOMAIN dataset_levels =
              {LevelOf(dataSetList[i]) : i \in DOMAIN dataSetList} \cup {<<0>>}
        /\ \A l \in DOMAIN dataset_levels :
              dataset_levels[l] = DeclaredAt(dataSetList, l)

C4_Witness ==
    /\ pc = "init"
    /\ <<0>> \in DOMAIN dataset_levels
    /\ dataset_levels[<<0>>] = <<>>
    /\ \E l \in DOMAIN dataset_levels : Len(dataset_levels[l]) >= 2

\* C10: with an empty master file list for the resolved master data type
\* descriptor, main ends with the no-volume error before any get_data,
\* processing function or product function is called.
C10_EmptyTimelineFatal ==
    (Len(masterfilelist) = 0 /\ pc # "start"
        /\ masterdatatypedescr # NoDescr) =>
        /\ pc = "error"
        /\ err = "novolume"
        /\ calls = <<>>
        /\ fetches = <<>>
        /\ lastInv = NoInv
        /\ dscfg = {}

C10_Witness ==
    /\ pc = "error"
    /\ err = "novolume"
    /\ Len(dataSetList) >= 1

\* ---- the order the specification asks for: ascending level number, then
\* ---- declaration order

UniqueNames(descrs) ==
    \A i, j \in DOMAIN descrs : i # j => descrs[i].name # descrs[j].name

StageNames == {dataSetList[i].name : i \in DOMAIN dataSetList}

\* the declaration index of the stage named n (names unique)
DeclIdx(n) == CHOOSE i \in DOMAIN dataSetList : dataSetList[i].name = n

\* the number a level key 'l<digits>' denotes
RECURSIVE LevelNum(_)
LevelNum(key) ==
    IF key = <<>> THEN 0
    ELSE 10 * LevelNum(SubSeq(key, 1, Len(key) - 1)) + key[Len(key)]

NumLevel(n) == LevelNum(LevelOf(dataSetList[DeclIdx(n)]))

\* stage a comes before stage b in level-then-declaration order
SpecBefore(a, b) ==
    \/ NumLevel(a) < NumLevel(b)
    \/ NumLevel(a) = NumLevel(b) /\ DeclIdx(a) < DeclIdx(b)

SamePass(c, d) == c.status = d.status /\ c.step = d.step

CallsOf(n, status) ==
    {i \in DOMAIN calls : calls[i].dataset = n /\ calls[i].status = status}

\* C2: a completed run over N >= 1 volumes, all read, of stages with unique
\* names has invoked every stage once with INIT, once per volume with PROCESS
\* and once with FINALIZE, each pass in level-then-declaration order.
C2_LifecycleComplete ==
    ( /\ pc = "done"
      /\ UniqueNames(dataSetList)
      /\ Len(masterfilelist) >= 1
      /\ \A i \in DOMAIN fetches : fetches[i].ok ) =>
        /\ \A n \in StageNames :
              /\ Cardinality(CallsOf(n, INIT_STATUS)) = 1
              /\ Cardinality(CallsOf(n, PROCESS_STATUS)) = Len(masterfilelist)
              /\ \A t \in DOMAIN masterfilelist :
                    \E i \in CallsOf(n, PROCESS_STATUS) : calls[i].step = t
              /\ Cardinality(CallsOf(n, FINAL_STATUS)) = 1
        /\ Len(calls) = Len(dataSetList) * (Len(masterfilelist) + 2)
        /\ \A i, j \in DOMAIN calls :
              (i < j /\ SamePass(calls[i], calls[j])) =>
                 SpecBefore(calls[i].dataset, calls[j].dataset)

\* C3: within every pass, a stage invoked earlier has a smaller level number
\* than a stage invoked later, or the same level and an earlier declaration.
C3_NumericLevelOrder ==
    UniqueNames(dataSetList) =>
        \A i, j \in DOMAIN calls :
            (i < j /\ SamePass(calls[i], calls[j])) =>
                \/ NumLevel(calls[i].dataset) < NumLevel(calls[j].dataset)
                \/ /\ NumLevel(calls[i].dataset) = NumLevel(calls[j].dataset)
                   /\ DeclIdx(calls[i].dataset) < DeclIdx(calls[j].dataset)

\* the results of the current volume that are global and carry field f
GlobalWriters(f) ==
    {i \in DOMAIN stepResults :
        stepResults[i].make_global = 1 /\ f \in DOMAIN stepResults[i].fields}

EndOfStep == pc = "process" /\ k > Len(Order)

\* C5: at the end of a volume, a field that two or more MAKE_GLOBAL datasets
\* returned holds the value of the one that is last in level-then-declaration
\* order (higher level, or declared later in the same level).
C5_LastWriterWins ==
    (EndOfStep /\ UniqueNames(dataSetList)) =>
        \A f \in Fields :
            Cardinality(GlobalWriters(f)) >= 2 =>
                LET w == CHOOSE x \in GlobalWriters(f) :
                            \A y \in GlobalWriters(f) \ {x} :
                                SpecBefore(stepResults[y].dataset,
                                           stepResults[x].dataset)
                IN /\ f \in DOMAIN radar.fields
                   /\ radar.fields[f] = stepResults[w].fields[f]

\* no get_data call was made since the most recent _process_dataset call
NoFetchSince == calls # <<>> /\ calls[Len(calls)].nfetch = Len(fetches)

\* C6: a dataset returned by a stage whose MAKE_GLOBAL is 0 (declared, or the
\* default) is not added to the radar object: the radar is as it was passed
\* in, no radar field ever stems from such a stage, and the products of the
\* stage are generated from that dataset.
C6_LocalResultNotMerged ==
    /\ (lastInv.status # Absent /\ ~lastInv.isNone /\ lastInv.make_global = 0)
         => /\ lastInv.added = Absent
            /\ (lastInv.status = PROCESS_STATUS /\ NoFetchSince) =>
                  radar = lastInv.radar
            /\ LET prods == cfg[lastInv.dataset].products
               IN /\ \A i \in DOMAIN lastInv.renders :
                        /\ lastInv.renders[i].product = prods[i]
                        /\ lastInv.renders[i].dataset = lastInv.new_dataset
                  /\ lastInv.raised = "" =>
                        Len(lastInv.renders) = Len(prods)
                  /\ lastInv.raised = "render" =>
                        Len(lastInv.renders) >= 1
    /\ pc = "process" =>
          \A f \in DOMAIN radar.fields :
              radar.fields[f].pos > 0 =>
                  cfg[Order[radar.fields[f].pos]].MAKE_GLOBAL = 1

C6_Witness ==
    /\ pc = "process"
    /\ k <= Len(Order)
    /\ lastInv.status = PROCESS_STATUS
    /\ NoFetchSince
    /\ ~lastInv.isNone
    /\ lastInv.dataset = "A"
    /\ lastInv.make_global = 0
    /\ Len(lastInv.renders) = 2
    /\ "f" \in DOMAIN radar.fields

\* C7: when a stage is invoked with PROCESS, the radar holds every field that
\* a MAKE_GLOBAL stage has returned so far in this volume, and every stage of
\* a lower level number has already been invoked for this volume.
C7_LowerLevelsMergedFirst ==
    /\ pc = "process" =>
          \A i \in DOMAIN stepResults :
              stepResults[i].make_global = 1 =>
                  DOMAIN stepResults[i].fields \subseteq DOMAIN radar.fields
    /\ UniqueNames(dataSetList) =>
          \A j \in DOMAIN calls :
              calls[j].status = PROCESS_STATUS =>
                  \A n \in StageNames :
                      NumLevel(n) < NumLevel(calls[j].dataset) =>
                          \E i \in 1..(j - 1) :
                              /\ SamePass(calls[i], calls[j])
                              /\ calls[i].dataset = n

\* C8: get_data is called once per master file, in order, and every PROCESS
\* invocation of volume t is made after the t-th get_data call, which
\* succeeded, with the radar object read for the time of volume t.
C8_FetchOncePerStep ==
    /\ Len(fetches) <= Len(masterfilelist)
    /\ \A i \in DOMAIN fetches : fetches[i].step = i
    /\ pc \in {"final", "done"} => Len(fetches) = Len(masterfilelist)
    /\ \A j \in DOMAIN calls :
          calls[j].status = PROCESS_STATUS =>
              /\ calls[j].nfetch = calls[j].step
              /\ fetches[calls[j].step].ok
              /\ calls[j].hasRadar
              /\ calls[j].radartime = masterfilelist[calls[j].step]

C8_Witness ==
    /\ pc = "done"
    /\ Len(fetches) = 2
    /\ \E j \in DOMAIN calls :
          calls[j].status = PROCESS_STATUS /\ calls[j].step = 2

\* C9: INIT and FINALIZE invocations get no radar object, and during volume t
\* every field of the radar object was read or produced at volume t: the
\* fields read are those of the files of volume t, the others were added by
\* stages already invoked for volume t.
C9_VolumeStepScoped ==
    /\ \A j \in DOMAIN calls :
          calls[j].status \in {INIT_STATUS, FINAL_STATUS} => ~calls[j].hasRadar
    /\ pc = "process" =>
          \A f \in DOMAIN radar.fields :
              /\ radar.fields[f].at = vi
              /\ radar.fields[f].pos = 0 => f \in SourceFields(vi)
              /\ radar.fields[f].pos < k
    /\ lastInv.status = PROCESS_STATUS =>
          \A f \in DOMAIN lastInv.radar.fields :
              lastInv.radar.fields[f].at = calls[Len(calls)].step

C9_Witness ==
    /\ pc = "process"
    /\ vi = 2
    /\ k = 1
    /\ lastInv.status = PROCESS_STATUS
    /\ lastInv.added = 0
    /\ "f" \in DOMAIN lastInv.new_dataset
    /\ "f" \notin DOMAIN radar.fields
    /\ FINAL_STATUS \notin StatusesCalled

\* ---- failures of the external calls

\* main has returned or has been ended by an exception
RunEnded == pc \in {"done", "error"}

AllFetchesOk == \A i \in DOMAIN fetches : fetches[i].ok

\* the calls in which the processing function (what = "transform") or a
\* product function (what = "render") raised
RaisedCalls(what) == {j \in DOMAIN calls : calls[j].raised = what}

\* the dataset at visit position p was invoked with the status for volume t
Invoked(p, status, t) ==
    \E j \in DOMAIN calls :
        calls[j].pos = p /\ calls[j].status = status /\ calls[j].step = t

FinalizedAll == \A p \in DOMAIN Order : Invoked(p, FINAL_STATUS, 0)

\* C11: when get_data fails for a volume, no stage is invoked with PROCESS for
\* that volume, every volume that is read gets its PROCESS invocations of all
\* stages, FINALIZE runs for all stages and main returns.
C11_FetchFailureSkipsStep ==
    ( /\ RunEnded
      /\ ~AllFetchesOk
      /\ RaisedCalls("transform") = {}
      /\ RaisedCalls("render") = {} ) =>
        /\ pc = "done"
        /\ Len(fetches) = Len(masterfilelist)
        /\ \A t \in DOMAIN fetches :
              IF fetches[t].ok
              THEN \A p \in DOMAIN Order : Invoked(p, PROCESS_STATUS, t)
              ELSE \A p \in DOMAIN Order : ~Invoked(p, PROCESS_STATUS, t)
        /\ FinalizedAll

\* C12: when the processing function of a stage raises in a PROCESS
\* invocation, the later stages of that volume are still invoked, the later
\* volumes are still processed, FINALIZE runs for every stage and main returns.
C12_ProcessFailureIsolated ==
    ( /\ RunEnded
      /\ AllFetchesOk
      /\ RaisedCalls("render") = {} ) =>
        \A j \in RaisedCalls("transform") :
            calls[j].status = PROCESS_STATUS =>
                /\ pc = "done"
                /\ \A p \in DOMAIN Order :
                      p > calls[j].pos =>
                          Invoked(p, PROCESS_STATUS, calls[j].step)
                /\ \A t \in DOMAIN masterfilelist :
                      t > calls[j].step =>
                          \A p \in DOMAIN Order : Invoked(p, PROCESS_STATUS, t)
                /\ FinalizedAll

\* C13: when the processing function of a stage raises in its INIT
\* invocation, the remaining stages still get INIT, every stage is invoked
\* with PROCESS for every volume and with FINALIZE, and main returns.
C13_InitFailureNotFatal ==
    ( /\ RunEnded
      /\ AllFetchesOk
      /\ RaisedCalls("render") = {} ) =>
        \A j \in RaisedCalls("transform") :
            calls[j].status = INIT_STATUS =>
                /\ pc = "done"
                /\ \A p \in DOMAIN Order : Invoked(p, INIT_STATUS, 0)
                /\ \A t \in DOMAIN masterfilelist :
                      \A p \in DOMAIN Order : Invoked(p, PROCESS_STATUS, t)
                /\ FinalizedAll

\* C18: a _process_dataset call whose processing function returned a dataset
\* has merged it (for a radar object and MAKE_GLOBAL: its fields are in the
\* radar), has then called the product function once per product of the
\* stage, in the order of the products, and returns 0; a call whose
\* processing function returned None has merged nothing, called no product
\* function and returns None.
C18_MergeThenDispatch ==
    (lastInv.status # Absent /\ lastInv.raised # "transform") =>
        IF ~lastInv.isNone
        THEN /\ lastInv.added =
                  (IF ~lastInv.radar.isNone /\ lastInv.make_global # 0
                   THEN 0 ELSE Absent)
             /\ (lastInv.added = 0 /\ NoFetchSince) =>
                   \A f \in DOMAIN lastInv.new_dataset :
                       /\ f \in DOMAIN radar.fields
                       /\ radar.fields[f] = lastInv.new_dataset[f]
             /\ LET prods == cfg[lastInv.dataset].products
                IN /\ Len(lastInv.renders) = Len(prods)
                   /\ \A i \in DOMAIN lastInv.renders :
                         /\ lastInv.renders[i].product = prods[i]
                         /\ lastInv.renders[i].dataset = lastInv.new_dataset
             /\ lastInv.ret = 0
        ELSE /\ lastInv.added = Absent
             /\ lastInv.renders = <<>>
             /\ lastInv.ret = Absent
             /\ (lastInv.status = PROCESS_STATUS /\ NoFetchSince) =>
                   radar = lastInv.radar

\* C20: when a product function raises, the product functions of the
\* remaining products of the stage are still called, the remaining stages of
\* the pass are still invoked and main returns.
C20_RendererFailureCaught ==
    /\ lastInv.raised = "render" =>
          Len(lastInv.renders) = Len(cfg[lastInv.dataset].products)
    /\ RunEnded =>
          \A j \in RaisedCalls("render") :
              /\ pc = "done"
              /\ \A p \in DOMAIN Order :
                    p > calls[j].pos =>
                        Invoked(p, calls[j].status, calls[j].step)
              /\ FinalizedAll

\* ---- the master data type resolution on its own: main up to line 66, from
\* ---- configurations whose datasets declare any data types

\* the 'datatype' entries of the datasets: A none or a str, B a list
ClockDatatypes(n) ==
    IF n = "A"
    THEN {NoDatatype} \cup {[kind |-> "str", val |-> <<d>>] : d \in DataTypes}
    ELSE {[kind |-> "list", val |-> q] : q \in SeqsUpTo(DataTypes, MaxTypes)}

ClockSections(n) ==
    [MAKE_GLOBAL : {0}, products : {<<>>},
     dsname : {""}, timeinfo : {Absent}, initialized : {Absent},
     global_data : {Absent}, datatype : ClockDatatypes(n), type : {"RAW"},
     prdcfg : {NewPrdCfgs(<<>>)}]

InitClock ==
    /\ pc = "start"
    /\ err = ""
    /\ dataSetList \in
          {q \in SeqsUpTo([lvl : {<<>>}, name : Names], MaxStages) :
              UniqueNames(q)}
    /\ \E a \in ClockSections("A"), b \in ClockSections("B") :
          cfg = [n \in Names |-> IF n = "A" THEN a ELSE b]
    /\ masterfilelist \in {<<>>, <<1>>}
    /\ dataset_levels = [l \in {} |-> <<>>]
    /\ dscfg = {}
    /\ vi = 0
    /\ k = 0
    /\ radar = NoneRadar
    /\ voltime = 0
    /\ calls = <<>>
    /\ fetches = <<>>
    /\ stepResults = <<>>
    /\ lastInv = NoInv
    /\ datatypesdescr = <<>>
    /\ masterdatatypedescr = NoDescr
    /\ listed = <<>>
    /\ prodrun = NoProdRun
    /\ prodlog = <<>>
    /\ merges = <<>>

SpecClock == InitClock /\ [][Setup]_vars

GroupOf(d) == get_datatype_fields(d).datagroup

\* the descriptors the datasets of cfg['dataSetList'] declare
Declared ==
    UNION {{cfg[dataSetList[i].name].datatype.val[j] :
               j \in DOMAIN cfg[dataSetList[i].name].datatype.val} :
           i \in DOMAIN dataSetList}

ListedTypes == {datatypesdescr[i] : i \in DOMAIN datatypesdescr}

PrimaryAt == {i \in DOMAIN datatypesdescr :
                 GroupOf(datatypesdescr[i]) \notin AuxGroups}

\* C14: when the list of data type descriptors holds a descriptor whose group
\* is none of COSMO, RAD4ALPCOSMO, DEM, RAD4ALPDEM, the master descriptor is
\* the first such descriptor of the list, and the file list is asked for it.
C14_ClockPrimaryRule ==
    (pc # "start" /\ PrimaryAt # {}) =>
        LET first == CHOOSE i \in PrimaryAt : \A j \in PrimaryAt : i <= j
        IN /\ masterdatatypedescr = datatypesdescr[first]
           /\ listed = <<datatypesdescr[first]>>

C14_Witness ==
    /\ pc # "start"
    /\ Len(datatypesdescr) = 3
    /\ PrimaryAt = {2, 3}
    /\ masterdatatypedescr = <<"RAD4ALP", "ZDR">>
    /\ datatypesdescr[3] = <<"RAINBOW", "dBZ">>

\* C15: when the list is not empty and every descriptor is of one of the four
\* groups, the master descriptor is a default: RAINBOW:dBZ when all are of
\* COSMO or DEM, RAD4ALP:dBZ when all are of RAD4ALPCOSMO or RAD4ALPDEM.
C15_ClockFallbackRule ==
    (pc # "start" /\ datatypesdescr # <<>> /\ PrimaryAt = {}) =>
        /\ masterdatatypedescr \in {<<"RAINBOW", "dBZ">>, <<"RAD4ALP", "dBZ">>}
        /\ listed = <<masterdatatypedescr>>
        /\ (\A d \in ListedTypes : GroupOf(d) \in {"COSMO", "DEM"}) =>
              masterdatatypedescr = <<"RAINBOW", "dBZ">>
        /\ (\A d \in ListedTypes :
               GroupOf(d) \in {"RAD4ALPCOSMO", "RAD4ALPDEM"}) =>
              masterdatatypedescr = <<"RAD4ALP", "dBZ">>

C15_Witness ==
    /\ pc # "start"
    /\ Len(datatypesdescr) = 2
    /\ {GroupOf(d) : d \in ListedTypes} = {"RAD4ALPCOSMO", "RAD4ALPDEM"}
    /\ masterdatatypedescr = <<"RAD4ALP", "dBZ">>

\* C16: when no master descriptor is resolved, main ends with the
\* NoClockAvailable error: get_file_list is not called and no processing
\* function is invoked.
C16_NoClockAvailable ==
    (pc # "start" /\ masterdatatypedescr = NoDescr) =>
        /\ listed = <<>>
        /\ pc = "error"
        /\ err = "NoClockAvailable"
        /\ calls = <<>>

\* ---- the product functions of pyrad.prod.process_product, called by the
\* ---- product loop of _process_dataset (lines 144-150)
\*
\* The result of a call records the warning issued ("" for none), whether an
\* output was written, the value returned ("None" or "fname") and whether the
\* call raised.  A 'hist_type' of "" is a prdcfg without that key.

SunHitsTypes ==
    {"WRITE_SUN_HITS", "PLOT_SUN_HITS", "WRITE_SUN_RETRIEVAL",
     "PLOT_SUN_RETRIEVAL", "PLOT_SUN_RETRIEVAL_TS"}
VolTypes ==
    {"PPI_IMAGE", "RHI_IMAGE", "PSEUDOPPI_IMAGE", "PSEUDORHI_IMAGE",
     "CAPPI_IMAGE", "BSCOPE_IMAGE", "HISTOGRAM", "QUANTILES", "SAVEVOL",
     "SAVEALL"}
TimeseriesTypes ==
    {"PLOT_AND_WRITE_POINT", "PLOT_CUMULATIVE_POINT", "COMPARE_POINT",
     "COMPARE_CUMULATIVE_POINT"}
MonitoringTypes ==
    {"VOL_HISTOGRAM", "PPI_HISTOGRAM", "ANGULAR_DENSITY", "VOL_TS", "SAVEVOL"}

\* the dataset key a sun hits product reads
SunHitsKey(type) ==
    IF type = "WRITE_SUN_HITS" THEN "sun_hits"
    ELSE IF type = "PLOT_SUN_HITS" THEN "sun_hits_final"
    ELSE "sun_retrieval"

Silent == [warned |-> "", wrote |-> FALSE, ret |-> "None", raised |-> FALSE]
Unsupported ==
    [warned |-> "unsupported", wrote |-> FALSE, ret |-> "None",
     raised |-> FALSE]

\* the product is skipped with a warning (lines 268-272)
Skipped_product ==
    [warned |-> "skipping", wrote |-> FALSE, ret |-> "None", raised |-> FALSE]

\* what the body of the branch of a supported type comes to, its calls to the
\* plotting and writing functions included: the output is written and its
\* name returned, the product is skipped with a warning, or a call raises
BranchOutcomes == {"written", "skipped", "raised"}

Branch(o) ==
    IF o = "written"
    THEN [warned |-> "", wrote |-> TRUE, ret |-> "fname", raised |-> FALSE]
    ELSE IF o = "skipped"
    THEN Skipped_product
    ELSE [warned |-> "", wrote |-> FALSE, ret |-> "None", raised |-> TRUE]

\* the branch of a type whose field is looked up in the dataset first
\* (lines 266-272); SAVEALL looks up no field (lines 618-633)
FieldBranch(fields, prdcfg, o) ==
    IF prdcfg.type # "SAVEALL" /\ prdcfg.voltype \notin fields
    THEN Skipped_product
    ELSE Branch(o)

\* lines 248-637
generate_vol_products(fields, prdcfg, o) ==
    IF prdcfg.type \in VolTypes THEN FieldBranch(fields, prdcfg, o)
    ELSE Unsupported

\* lines 86-129: the figures are plotted at line 125, and line 129 adds the
\* str savedir to the list fname
PLOT_SUN_HITS(fields, prdcfg, o) ==
    IF prdcfg.voltype \notin fields THEN Skipped_product
    ELSE IF o = "written"
    THEN [warned |-> "", wrote |-> TRUE, ret |-> "None", raised |-> TRUE]
    ELSE Branch(o)

\* lines 151-196: the warning of lines 164-168 is not followed by a return,
\* and line 182 subscripts dataset['sun_retrieval'] with the parameter
PLOT_SUN_RETRIEVAL(fields, prdcfg, o) ==
    IF prdcfg.voltype \notin fields
    THEN [warned |-> "skipping", wrote |-> FALSE, ret |-> "None",
          raised |-> TRUE]
    ELSE Branch(o)

\* lines 47-245; the result of the call at line 245 is not returned
generate_sun_hits_products(keys, fields, prdcfg, o) ==
    IF prdcfg.type \in SunHitsTypes
    THEN IF SunHitsKey(prdcfg.type) \notin keys THEN Silent
         ELSE IF prdcfg.type = "PLOT_SUN_HITS"
         THEN PLOT_SUN_HITS(fields, prdcfg, o)
         ELSE IF prdcfg.type = "PLOT_SUN_RETRIEVAL"
         THEN PLOT_SUN_RETRIEVAL(fields, prdcfg, o)
         ELSE Branch(o)
    ELSE IF "radar" \in keys
         THEN [generate_vol_products(fields, prdcfg, o) EXCEPT !.ret = "None"]
         ELSE Silent

\* lines 657-703: the CSV file is written at line 674 and the figures at line
\* 698, and line 703 adds the str savedir to the list figfname
PLOT_AND_WRITE_POINT(o) ==
    IF o = "written"
    THEN [warned |-> "", wrote |-> TRUE, ret |-> "None", raised |-> TRUE]
    ELSE IF o = "skipped"
    THEN [warned |-> "skipping", wrote |-> TRUE, ret |-> "None",
          raised |-> FALSE]
    ELSE Branch(o)

\* lines 640-871
generate_timeseries_products(prdcfg, o) ==
    IF prdcfg.type = "PLOT_AND_WRITE_POINT" THEN PLOT_AND_WRITE_POINT(o)
    ELSE IF prdcfg.type \in TimeseriesTypes THEN Branch(o)
    ELSE Unsupported

\* lines 874-1139
generate_monitoring_products(ds_hist_type, fields, prdcfg, o) ==
    LET hist_type == IF prdcfg.hist_type = "" THEN "cumulative"
                     ELSE prdcfg.hist_type
    IN IF ds_hist_type # hist_type THEN Silent
       ELSE IF prdcfg.type \in MonitoringTypes
       THEN FieldBranch(fields, prdcfg, o)
       ELSE Unsupported

\* line 150: prod_func(new_dataset, prdcfg)
prod_func(run, prdcfg, o) ==
    CASE run.prod_func = "generate_vol_products" ->
            generate_vol_products(run.fields, prdcfg, o)
      [] run.prod_func = "generate_sun_hits_products" ->
            generate_sun_hits_products(run.keys, run.fields, prdcfg, o)
      [] run.prod_func = "generate_timeseries_products" ->
            generate_timeseries_products(prdcfg, o)
      [] OTHER ->
            generate_monitoring_products(run.hist_type, run.fields, prdcfg,
                                         o)

\* the product types and the datasets of the runs of the product loop: the
\* fields of a run are the data types its dataset holds (the fields of the
\* radar or histogram object, the entries of 'sun_hits_final', the
\* parameters of 'sun_retrieval')
ProductTypes ==
    {"PPI_IMAGE", "WRITE_SUN_HITS", "PLOT_SUN_HITS", "PLOT_SUN_RETRIEVAL",
     "PLOT_AND_WRITE_POINT", "VOL_HISTOGRAM", "FOO"}
VolFields == {"dBZ"}
PrdCfgs ==
    [type : ProductTypes, hist_type : {"", "instant"}, voltype : {"dBZ", "ZDR"}]
SunHitsKeys == {"sun_hits", "sun_hits_final", "sun_retrieval"}
ProdRuns ==
    [prod_func : {"generate_vol_products", "generate_timeseries_products"},
     keys : {{}}, fields : {VolFields}, hist_type : {""},
     products : SeqsUpTo(PrdCfgs, MaxProducts)]
    \cup [prod_func : {"generate_sun_hits_products"},
          keys : {{}, {"radar"}, SunHitsKeys}, fields : {VolFields},
          hist_type : {""}, products : SeqsUpTo(PrdCfgs, MaxProducts)]
    \cup [prod_func : {"generate_monitoring_products"},
          keys : {{"hist_obj"}}, fields : {VolFields},
          hist_type : {"cumulative", "instant"},
          products : SeqsUpTo(PrdCfgs, MaxProducts)]

InitProd ==
    /\ pc = "dispatch"
    /\ err = ""
    /\ dataSetList = <<>>
    /\ cfg \in [Names -> UNION {Sections(n) : n \in Names}]
    /\ \A n \in Names :
          cfg[n] \in Sections(n) /\ cfg[n].MAKE_GLOBAL = 1 /\ cfg[n].type = "RAW"
    /\ masterfilelist = <<>>
    /\ dataset_levels = [l \in {} |-> <<>>]
    /\ dscfg = {}
    /\ vi = 0
    /\ k = 1
    /\ radar = NoneRadar
    /\ voltime = 0
    /\ calls = <<>>
    /\ fetches = <<>>
    /\ stepResults = <<>>
    /\ lastInv = NoInv
    /\ datatypesdescr = <<>>
    /\ masterdatatypedescr = NoDescr
    /\ listed = <<>>
    /\ prodrun \in ProdRuns
    /\ prodlog = <<>>
    /\ merges = <<>>

\* lines 145-150: one iteration of the product loop
Dispatch ==
    /\ pc = "dispatch"
    /\ k <= Len(prodrun.products)
    /\ \E o \in BranchOutcomes :
          LET r == prod_func(prodrun, prodrun.products[k], o)
          IN /\ prodlog' = Append(prodlog, r)
             /\ IF r.raised
                THEN pc' = "error" /\ err' = "render" /\ k' = k
                ELSE pc' = pc /\ err' = err /\ k' = k + 1
    /\ UNCHANGED <<cfg, dataSetList, masterfilelist, dataset_levels, dscfg,
                   vi, radar, voltime, calls, fetches, stepResults, lastInv,
                   clockvars, prodrun, mergevars>>

\* line 152: the product loop is exhausted, _process_dataset returns 0
DispatchEnd ==
    /\ pc = "dispatch"
    /\ k > Len(prodrun.products)
    /\ pc' = "returned"
    /\ UNCHANGED <<err, cfg, dataSetList, masterfilelist, dataset_levels,
                   dscfg, vi, k, radar, voltime, calls, fetches, stepResults,
                   lastInv, clockvars, prodvars, mergevars>>

NextProd ==
    \/ Dispatch
    \/ DispatchEnd

SpecProd == InitProd /\ [][NextProd]_vars

\* the product types a product function has a branch for (the sun hits
\* function hands the other types to generate_vol_products)
Supported(f) ==
    CASE f = "generate_vol_products" -> VolTypes
      [] f = "generate_sun_hits_products" -> SunHitsTypes \cup VolTypes
      [] f = "generate_timeseries_products" -> TimeseriesTypes
      [] OTHER -> MonitoringTypes

UnknownAt(i) ==
    prodrun.products[i].type \notin Supported(prodrun.prod_func)

\* C19: a product of a type the product function does not know makes the
\* call warn 'Unsupported product type', write nothing and return without
\* raising, and the product loop goes on: it ends only after the last
\* product, or on a call for a known type that raised.
C19_UnknownProductSkipped ==
    /\ \A i \in DOMAIN prodlog :
          UnknownAt(i) =>
              /\ prodlog[i].warned = "unsupported"
              /\ ~prodlog[i].wrote
              /\ ~prodlog[i].raised
    /\ pc = "returned" => Len(prodlog) = Len(prodrun.products)
    /\ pc = "error" => ~UnknownAt(Len(prodlog))

\* ---- the post-processing pass

LastTime == masterfilelist[Len(masterfilelist)]

\* C21: every FINALIZE invocation is made without a radar object and with
\* the time of the last volume of the master file list, in the dataset
\* configuration and in the configuration of every product it generates.
C21_FinalizeUsesLastTime ==
    /\ \A j \in DOMAIN calls :
          calls[j].status = FINAL_STATUS =>
              /\ ~calls[j].hasRadar
              /\ calls[j].timeinfo = LastTime
    /\ lastInv.status = FINAL_STATUS =>
          /\ lastInv.radar.isNone
          /\ lastInv.timeinfo = LastTime
          /\ cfg[lastInv.dataset].timeinfo = LastTime
          /\ \A i \in DOMAIN lastInv.renders :
                lastInv.renders[i].timeinfo = LastTime

C21_Witness ==
    /\ pc = "done"
    /\ Len(masterfilelist) = 2
    /\ lastInv.status = FINAL_STATUS
    /\ Len(lastInv.renders) = 2
    /\ lastInv.renders[2].timeinfo = 2

\* ---- the dataset list and the dataset configurations

\* C22: when two descriptors of the dataset list have the same name, main
\* ends with the DuplicateStageName error before any processing function is
\* called and before any dataset configuration is created.
C22_DuplicateStageName ==
    (pc # "start" /\ ~UniqueNames(dataSetList)) =>
        /\ pc = "error"
        /\ err = "DuplicateStageName"
        /\ calls = <<>>
        /\ dscfg = {}

\* the visit positions of the datasets whose type has no processing function
UnknownStages ==
    {p \in DOMAIN Order : ~get_process_type(cfg[Order[p]].type)}

\* C23: no processing function is called for a dataset of an unknown type;
\* main does not get past the initialisation of such a dataset: it ends there
\* with an error, and the only calls made are the INIT calls of the datasets
\* visited before it.
C23_UnknownStageTypeFatal ==
    /\ \A j \in DOMAIN calls : get_process_type(cfg[calls[j].dataset].type)
    /\ pc \in {"fetch", "process", "final", "done"} => UnknownStages = {}
    /\ err = "unknowntype" =>
          /\ pc = "error"
          /\ k \in UnknownStages
          /\ fetches = <<>>
          /\ \A j \in DOMAIN calls :
                calls[j].status = INIT_STATUS /\ calls[j].pos < k

C23_Witness ==
    /\ pc = "error"
    /\ err = "unknowntype"
    /\ k = 2
    /\ Len(calls) = 1
    /\ Len(masterfilelist) = 2

\* the calls made for the same dataset before call j
EarlierCalls(j) == {i \in 1..(j - 1) : calls[i].dataset = calls[j].dataset}

\* C25: every call of a processing function finds in the dataset configuration
\* the initialized flag and global_data that the previous call for that
\* dataset left there (0 and None at the first call), and between the calls
\* the configuration keeps what the last call left.
C25_StageStatePassThrough ==
    /\ \A j \in DOMAIN calls :
          IF EarlierCalls(j) = {}
          THEN calls[j].initialized = 0 /\ calls[j].global_data = 0
          ELSE LET i == CHOOSE x \in EarlierCalls(j) :
                            \A y \in EarlierCalls(j) : y <= x
               IN /\ calls[j].initialized = 1
                  /\ calls[j].global_data = calls[i].global_data + 1
    /\ pc \in {"init", "fetch", "process", "final", "done"} =>
          \A j \in DOMAIN calls :
              (\A i \in DOMAIN calls : i > j =>
                    calls[i].dataset # calls[j].dataset) =>
                  /\ cfg[calls[j].dataset].initialized = 1
                  /\ cfg[calls[j].dataset].global_data
                        = calls[j].global_data + 1

\* C26: the sections of the configuration dictionary are at all times as they
\* were read from the configuration files.
C26_ConfigNeverMutated ==
    \A n \in Names : cfg[n] \in Sections(n)

\* C24: with an empty dataset list main ends with an error before the
\* initialisation loops: it reads no volume and does not return normally.
C24_NoStagesFatal ==
    (dataSetList = <<>> /\ pc # "start") =>
        /\ pc = "error"
        /\ fetches = <<>>

\* the volumes read, and the volumes whose reading failed
Processed == Cardinality({i \in DOMAIN fetches : fetches[i].ok})
Skipped == Cardinality({i \in DOMAIN fetches : ~fetches[i].ok})

\* C27: a run in which the reading of some volume failed, and no processing
\* or product function raised, ends by returning from main, and the volumes
\* read and the volumes skipped add up to the master file list.
C27_SkippedStepsSummary ==
    ( /\ RunEnded
      /\ Skipped > 0
      /\ RaisedCalls("transform") = {}
      /\ RaisedCalls("render") = {}
      /\ err # "unknowntype" ) =>
        /\ pc = "done"
        /\ Processed + Skipped = Len(masterfilelist)

\* ---- the product configuration

\* C28: every call of a product function is handed a product configuration
\* holding the run-wide entries, the name of the dataset and the name of the
\* product; in the processing of volume t its timeinfo is the time of volume
\* t, and in the initialisation it holds no timeinfo.
C28_ProductContext ==
    lastInv.status # Absent =>
        \A i \in DOMAIN lastInv.renders :
            LET r == lastInv.renders[i]
            IN /\ r.prdcfg.runwide
               /\ r.prdcfg.dsname = lastInv.dataset
               /\ r.prdcfg.prdname = r.product
               /\ lastInv.status = PROCESS_STATUS =>
                     r.prdcfg.timeinfo
                        = masterfilelist[calls[Len(calls)].step]
               /\ lastInv.status = INIT_STATUS =>
                     r.prdcfg.timeinfo = Absent

C28_Witness ==
    /\ lastInv.status = PROCESS_STATUS
    /\ calls[Len(calls)].step = 2
    /\ Len(lastInv.renders) = 2
    /\ lastInv.renders[2].prdcfg.timeinfo = 2
    /\ \E j \in DOMAIN calls :
          calls[j].status = INIT_STATUS /\ calls[j].dataset = lastInv.dataset

\* ---- the results of the product functions

\* the hist_type a monitoring product asks for (lines 877-879)
HistTypeOf(prdcfg) ==
    IF prdcfg.hist_type = "" THEN "cumulative" ELSE prdcfg.hist_type

\* product i of the loop needs a field or parameter that the dataset handed
\* to the product function does not hold
MissingAt(i) ==
    LET prdcfg == prodrun.products[i]
        f == prodrun.prod_func
    IN /\ prdcfg.voltype \notin prodrun.fields
       /\ \/ /\ f = "generate_vol_products"
             /\ prdcfg.type \in VolTypes \ {"SAVEALL"}
          \/ /\ f = "generate_sun_hits_products"
             /\ \/ /\ prdcfg.type \in {"PLOT_SUN_HITS", "PLOT_SUN_RETRIEVAL"}
                   /\ SunHitsKey(prdcfg.type) \in prodrun.keys
                \/ /\ prdcfg.type \in VolTypes \ {"SAVEALL"}
                   /\ "radar" \in prodrun.keys
          \/ /\ f = "generate_monitoring_products"
             /\ prdcfg.type \in MonitoringTypes
             /\ prodrun.hist_type = HistTypeOf(prdcfg)

\* C29: a call of generate_vol_products, generate_sun_hits_products or
\* generate_monitoring_products for a product whose field or parameter is
\* missing from the dataset warns, writes nothing and returns None without
\* raising.
C29_MissingFieldSkipped ==
    \A i \in DOMAIN prodlog :
        MissingAt(i) =>
            /\ prodlog[i].warned = "skipping"
            /\ ~prodlog[i].wrote
            /\ prodlog[i].ret = "None"
            /\ ~prodlog[i].raised

\* C30: a call of generate_sun_hits_products or generate_timeseries_products
\* that wrote or plotted a product returns the file names without raising,
\* and a call that wrote nothing returns None.
C30_ReturnsNamesWhenWritten ==
    prodrun.prod_func \in {"generate_sun_hits_products",
                           "generate_timeseries_products"} =>
        \A i \in DOMAIN prodlog :
            IF prodlog[i].wrote
            THEN ~prodlog[i].raised /\ prodlog[i].ret = "fname"
            ELSE prodlog[i].ret = "None"

\* ---- termination

\* every dataset of the list has a type with a processing function
ValidPlan ==
    \A i \in DOMAIN dataSetList :
        get_process_type(cfg[dataSetList[i].name].type)

\* a call of get_file_list, get_data, a processing function or a product
\* function has raised
ExternalRaised ==
    pc = "error" /\ err \in {"listing", "fetch", "transform", "render"}

\* C31: with a non-empty master file list, a dataset list whose types all
\* have a processing function, and no call of get_file_list, get_data, a
\* processing function or a product function raising, main eventually
\* returns (a run either comes to that return or to a call that raises), and
\* it returns only after the post-processing call of every dataset.
C31_Termination ==
    /\ [](pc = "done" => FinalizedAll)
    /\ (Len(masterfilelist) > 0 /\ ValidPlan)
          => <>(pc = "done" \/ ExternalRaised)

C31_Witness ==
    /\ pc = "done"
    /\ FinalizedAll
    /\ Len(Order) = 2
    /\ Len(masterfilelist) = 2
    /\ Len(calls) = 8

\* ---- the field merge of _add_dataset (lines 464-493), studied on its own:
\* ---- a radar object, or None, to which up to MaxMerges datasets are added

\* the radar objects of the study: None, or the fields read from a volume
MergeVolumes ==
    {NoneRadar}
    \cup {[isNone |-> FALSE, time |-> 1,
           fields |-> [f \in S |-> [pos |-> 0, at |-> 1]]] : S \in SUBSET Fields}

\* the datasets of the study: fields computed by the dataset at visit
\* position 1 or 2
MergeResults ==
    UNION {[S -> [pos : 1..2, at : {1}]] : S \in SUBSET Fields}

InitMerge ==
    /\ pc = "merge"
    /\ err = ""
    /\ dataSetList = <<>>
    /\ cfg = [n \in Names |-> UnusedSection(n)]
    /\ masterfilelist = <<>>
    /\ dataset_levels = [l \in {} |-> <<>>]
    /\ dscfg = {}
    /\ vi = 0
    /\ k = 1
    /\ radar \in MergeVolumes
    /\ voltime = 0
    /\ calls = <<>>
    /\ fetches = <<>>
    /\ stepResults = <<>>
    /\ lastInv = NoInv
    /\ datatypesdescr = <<>>
    /\ masterdatatypedescr = NoDescr
    /\ listed = <<>>
    /\ prodrun = NoProdRun
    /\ prodlog = <<>>
    /\ merges = <<>>

\* lines 140-141: new_dataset is added to the radar object
Merge ==
    /\ pc = "merge"
    /\ Len(merges) < MaxMerges
    /\ \E new_dataset \in MergeResults, make_global \in {0, 1} :
          LET res == _add_dataset(new_dataset, radar, make_global)
          IN /\ radar' = res.radar
             /\ merges' = Append(merges,
                                 [new_dataset |-> new_dataset,
                                  make_global |-> make_global,
                                  radar |-> radar, after |-> res.radar,
                                  ret |-> res.ret])
    /\ UNCHANGED <<pc, err, cfg, dataSetList, masterfilelist, dataset_levels,
                   dscfg, vi, k, voltime, calls, fetches, stepResults,
                   lastInv, clockvars, prodvars>>

SpecMerge == InitMerge /\ [][Merge]_vars

\* the radar object after the datasets of the logged calls a and then b are
\* added to rad
Both(rad, a, b) ==
    _add_dataset(b.new_dataset,
                 _add_dataset(a.new_dataset, rad, a.make_global).radar,
                 b.make_global).radar

SharedFields(a, b) == DOMAIN a.new_dataset \cap DOMAIN b.new_dataset

\* C32: when two datasets with MAKE_GLOBAL set are added to a radar object
\* one after the other and they have no field in common, the radar object is
\* the one that adding them in the other order gives; when they hold
\* different data for a common field, the other order gives another object.
C32_DisjointMergeCommutes ==
    \A i \in 1..(Len(merges) - 1) :
        LET a == merges[i]
            b == merges[i + 1]
        IN (a.make_global = 1 /\ b.make_global = 1 /\ ~a.radar.isNone) =>
              /\ b.after = Both(a.radar, a, b)
              /\ SharedFields(a, b) = {} => Both(a.radar, b, a) = b.after
              /\ (\E f \in SharedFields(a, b) :
                        a.new_dataset[f] # b.new_dataset[f])
                    => Both(a.radar, b, a) # b.after

C32_Witness ==
    /\ Len(merges) = 2
    /\ merges[1].make_global = 1
    /\ merges[2].make_global = 1
    /\ DOMAIN merges[1].radar.fields = {"f", "g"}
    /\ DOMAIN merges[1].new_dataset = {"f"}
    /\ DOMAIN merges[2].new_dataset = {"g"}
    /\ radar.fields["f"].pos = 1
    /\ radar.fields["g"].pos = 2

\* ---- the order of the data type list

\* C33: the master descriptor resolved for a configuration is the one every
\* enumeration of the set of its data type descriptors resolves to.
C33_ClockDeterminism ==
    pc # "start" =>
        \A l \in _get_datatype_list(cfg, dataSetList) :
            MasterDescr(l) = masterdatatypedescr

\* ---- the time of the volume in the dataset configuration

\* the PROCESS calls, in the order they were made
ProcessCalls == {j \in DOMAIN calls : calls[j].status = PROCESS_STATUS}

\* C34: the PROCESS calls go through the master file list in its order, one
\* pass of the datasets per master file; each is made with the time of its
\* master file, which is then the timeinfo of the dataset configuration; the
\* INIT calls are made with no time.
C34_StepTimestamp ==
    /\ \A i, j \in ProcessCalls :
          i < j =>
             \/ calls[i].step < calls[j].step
             \/ calls[i].step = calls[j].step /\ calls[i].pos < calls[j].pos
    /\ pc \in {"final", "done"} =>
          \A t \in DOMAIN masterfilelist : \A p \in DOMAIN Order :
              Invoked(p, PROCESS_STATUS, t)
    /\ \A j \in DOMAIN calls :
          /\ calls[j].status = PROCESS_STATUS =>
                calls[j].timeinfo = masterfilelist[calls[j].step]
          /\ calls[j].status = INIT_STATUS => calls[j].timeinfo = 0
    /\ lastInv.status = PROCESS_STATUS =>
          cfg[lastInv.dataset].timeinfo
             = masterfilelist[calls[Len(calls)].step]
    /\ lastInv.status = INIT_STATUS => cfg[lastInv.dataset].timeinfo = 0

C34_Witness ==
    /\ pc = "process"
    /\ vi = 2
    /\ lastInv.status = PROCESS_STATUS
    /\ cfg[lastInv.dataset].timeinfo = 2
    /\ \E j \in ProcessCalls : calls[j].step = 1 /\ calls[j].timeinfo = 1
    /\ Len(Order) = 2

\* ---- the dataset configuration at the initialisation

\* the first call made for the dataset of call j
FirstCallOf(j) ==
    CHOOSE i \in DOMAIN calls :
        /\ calls[i].dataset = calls[j].dataset
        /\ \A x \in DOMAIN calls :
              calls[x].dataset = calls[j].dataset => i <= x

\* C35: every INIT call finds in the dataset configuration initialized 0, no
\* global data and no time; the first call made for a dataset is an INIT
\* call; the configuration of a dataset that had its INIT call holds its
\* name and a MAKE_GLOBAL that is 0 unless the section declares it.
C35_FreshContextAtInit ==
    /\ \A j \in DOMAIN calls :
          /\ calls[j].status = INIT_STATUS =>
                /\ calls[j].initialized = 0
                /\ calls[j].global_data = 0
                /\ calls[j].timeinfo = 0
          /\ calls[FirstCallOf(j)].status = INIT_STATUS
    /\ \A ds \in dscfg :
          /\ cfg[ds].dsname = ds
          /\ cfg[ds].MAKE_GLOBAL \in {0} \cup (MakeGlobalOf[ds] \ {Absent})
    /\ lastInv.status # Absent =>
          lastInv.make_global = cfg[lastInv.dataset].MAKE_GLOBAL

C35_Witness ==
    /\ Len(calls) = 3
    /\ calls[1].status = INIT_STATUS /\ calls[1].dataset = "A"
    /\ calls[2].status = INIT_STATUS /\ calls[2].dataset = "B"
    /\ calls[3].status = PROCESS_STATUS /\ calls[3].initialized = 1
    /\ cfg["A"].MAKE_GLOBAL = 0
    /\ cfg["B"].MAKE_GLOBAL = 1

\* ---- _add_dataset without a radar object

\* the last call was made without a radar object and returned a dataset
MergedWithoutRadar ==
    /\ lastInv.status \in {INIT_STATUS, FINAL_STATUS}
    /\ ~lastInv.isNone

\* C36: in an INIT or FINALIZE call _add_dataset returns None, whatever
\* MAKE_GLOBAL and the fields of the dataset are, the call leaves the radar
\* object of main as it was, and the products of the dataset are generated;
\* _add_dataset returns 0 exactly when it is given a radar object and
\* MAKE_GLOBAL is set.
C36_MergeWithoutVolume ==
    /\ [](MergedWithoutRadar =>
            /\ lastInv.radar.isNone
            /\ lastInv.added = Absent
            /\ cfg[lastInv.dataset].products # <<>> =>
                  Len(lastInv.renders) >= 1
            /\ lastInv.raised = "" =>
                  Len(lastInv.renders) = Len(cfg[lastInv.dataset].products))
    /\ [](~lastInv.isNone =>
            (lastInv.added = 0
                <=> (~lastInv.radar.isNone /\ lastInv.make_global = 1)))
    /\ [][(calls' # calls /\ lastInv'.status \in {INIT_STATUS, FINAL_STATUS})
             => radar' = radar]_vars

C36_Witness ==
    /\ lastInv.status = FINAL_STATUS
    /\ ~lastInv.isNone
    /\ lastInv.make_global = 1
    /\ lastInv.new_dataset # NoFields
    /\ Len(lastInv.renders) = 2
    /\ lastInv.raised = ""
    /\ ~radar.isNone

\* ---- the dataset configurations main keeps

PlanNames == {dataSetList[i].name : i \in DOMAIN dataSetList}

\* C37: every PROCESS and FINALIZE call of a dataset comes after the INIT
\* call of that dataset; once the initialisation loops are done dscfg has an
\* entry for exactly the names of the dataset list, and no later loop looks
\* up a name that has none.
C37_InitPrecedesUse ==
    /\ \A j \in DOMAIN calls :
          calls[j].status \in {PROCESS_STATUS, FINAL_STATUS} =>
              \E i \in 1..(j - 1) :
                  /\ calls[i].status = INIT_STATUS
                  /\ calls[i].dataset = calls[j].dataset
                  /\ calls[i].pos = calls[j].pos
    /\ pc \in {"fetch", "process", "final", "done"} => dscfg = PlanNames
    /\ err # "KeyError"

C37_Witness ==
    /\ pc = "done"
    /\ dscfg = {"A", "B"}
    /\ calls[Len(calls)].status = FINAL_STATUS
    /\ calls[Len(calls)].dataset = "B"
    /\ \E j \in DOMAIN calls :
          calls[j].status = PROCESS_STATUS /\ calls[j].dataset = "B"

\* ---- the frame of the field merge

\* C38: a call of _add_dataset with a radar object and MAKE_GLOBAL set leaves
\* every field of the radar object that the dataset does not name with its
\* data, gives the fields the dataset names the data of the dataset, and
\* leaves the radar object with the union of the two field sets (and with
\* nothing else changed); a call that returns None leaves it as it was.
C38_MergeFrame ==
    \A i \in DOMAIN merges :
        LET m == merges[i]
        IN IF m.ret = 0
           THEN /\ ~m.radar.isNone /\ m.make_global = 1
                /\ DOMAIN m.after.fields
                      = DOMAIN m.radar.fields \cup DOMAIN m.new_dataset
                /\ \A f \in DOMAIN m.radar.fields \ DOMAIN m.new_dataset :
                      m.after.fields[f] = m.radar.fields[f]
                /\ \A f \in DOMAIN m.new_dataset :
                      m.after.fields[f] = m.new_dataset[f]
                /\ m.after = [m.radar EXCEPT !.fields = m.after.fields]
           ELSE m.after = m.radar

C38_Witness ==
    /\ Len(merges) = 1
    /\ merges[1].ret = 0
    /\ DOMAIN merges[1].radar.fields = {"f", "g"}
    /\ DOMAIN merges[1].new_dataset = {"f"}
    /\ radar.fields["f"].pos = 2
    /\ radar.fields["g"].pos = 0

\* ---- what is carried from one volume to the next

\* C39: when the processing of a volume after the first begins, the product
\* configurations the product contexts of that volume are made from hold
\* nothing that was entered in a product context before: they are as they
\* were read from the configuration files.
C39_NoProductStateCarried ==
    (pc = "process" /\ k = 1 /\ vi > 1) =>
        \A n \in Names : cfg[n].prdcfg = NewPrdCfgs(cfg[n].products)

====
